---- MODULE Spec2Model ----
(***************************************************************************)
(* Model of the ipset netlink encoder and transport of src/util.c:         *)
(* _ipset_add_attr, _ipset_socket_init, _ipset_support_timeout,            *)
(* _ipset_operate, ipset_add and ipset_del.                                *)
(*                                                                         *)
(* The scratch buffer is modelled byte by byte.  Values wider than a byte  *)
(* are kept as tuples of bytes, most significant first, so that the width  *)
(* of unsigned long (4 or 8 bytes, depending on the build) and the byte    *)
(* order of the host are part of the model.                                *)
(***************************************************************************)
EXTENDS Integers, Sequences, FiniteSets, TLC

(* ------------------------- program constants -------------------------- *)
NFNL_SUBSYS_IPSET == 6
IPSET_ATTR_DATA == 7
IPSET_ATTR_IP == 1
IPSET_ATTR_IPADDR_IPV4 == 1
IPSET_ATTR_IPADDR_IPV6 == 2
IPSET_ATTR_PROTOCOL == 1
IPSET_ATTR_SETNAME == 2
IPSET_ATTR_TIMEOUT == 6
IPSET_ADD == 9
IPSET_DEL == 10
IPSET_MAXNAMELEN == 32
IPSET_PROTOCOL == 6
IPV6_ADDR_LEN == 16
IPV4_ADDR_LEN == 4
NFNETLINK_V0 == 0
NLA_F_NESTED == 32768
NLA_F_NET_BYTEORDER == 16384
BUFF_SZ == 256

(* values of the system headers the code uses *)
AF_INET == 2
AF_INET6 == 10
NLM_F_REQUEST == 1
NLM_F_REPLACE == 256
SizeofNlmsghdr == 16
SizeofNetlinkMsg == 4
SizeofNetlinkAttr == 4

(* errno values, by name *)
EINVAL == "EINVAL"
ENAMETOOLONG == "ENAMETOOLONG"
EAGAIN == "EAGAIN"
EWOULDBLOCK == EAGAIN
EINTR == "EINTR"
EPERM == "EPERM"
EACCES == "EACCES"
NoErrno == "0"

(* ------------------------------ bounds -------------------------------- *)
\* longest set name a caller passes
MaxNameLen == 33
\* sendto calls the model follows within one operation
MaxSends == 2
\* largest descriptor socket() hands out
MaxFd == 3

(* --------------------------- byte helpers ----------------------------- *)
NETLINK_ALIGN(len) == ((len + 3) \div 4) * 4

Zeros(n) == [i \in 1..n |-> 0]

Reverse(s) == [i \in 1..Len(s) |-> s[Len(s) + 1 - i]]

\* host representation of a 16-bit value
U16Bytes(v, le) ==
    IF le THEN <<v % 256, (v \div 256) % 256>>
          ELSE <<(v \div 256) % 256, v % 256>>

\* host representation of a 32-bit value (below 2^31 in this model)
U32Bytes(v, le) ==
    LET be == <<(v \div 16777216) % 256, (v \div 65536) % 256,
                (v \div 256) % 256, v % 256>>
    IN  IF le THEN Reverse(be) ELSE be

GetU16(buf, off, le) ==
    IF le THEN buf[off] + 256 * buf[off + 1]
          ELSE 256 * buf[off] + buf[off + 1]

GetU32(buf, off, le) ==
    IF le THEN buf[off] + 256 * buf[off + 1] + 65536 * buf[off + 2]
               + 16777216 * buf[off + 3]
          ELSE 16777216 * buf[off] + 65536 * buf[off + 1]
               + 256 * buf[off + 2] + buf[off + 3]

\* store bytes at off; a store past the end of the array is dropped here
\* and reported by Overruns
Write(buf, off, bytes) ==
    [i \in 0..(BUFF_SZ - 1) |->
        IF i >= off /\ i < off + Len(bytes) THEN bytes[i - off + 1] ELSE buf[i]]

Overruns(off, n) == off + n > BUFF_SZ

ZeroBuffer == [i \in 0..(BUFF_SZ - 1) |-> 0]

\* netlink_head->nlmsg_len, ->nlmsg_type, ->nlmsg_flags
NlmsgLen(buf, le) == GetU32(buf, 0, le)
NlmsgType(buf, le) == GetU16(buf, 4, le)
NlmsgFlags(buf, le) == GetU16(buf, 6, le)

(* unsigned long and uint32_t as tuples of bytes, most significant first *)
ToUint32(d) == SubSeq(d, Len(d) - 3, Len(d))

Htonl(x, le) == IF le THEN Reverse(x) ELSE x

ToULong(x, sz) == Zeros(sz - Len(x)) \o x

IsPositive(d) == \E i \in 1..Len(d) : d[i] > 0

\* the bytes of an object in memory
ObjectBytes(d, le) == IF le THEN Reverse(d) ELSE d

(* ------------------------------- inputs ------------------------------- *)
Blocklist == <<98, 108, 111, 99, 107, 108, 105, 115, 116>>

\* a name of n characters, none of them NUL
NameOf(n, c) == [i \in 1..n |-> c + (i % 3)]

Names ==
    {NameOf(n, 97) : n \in {0, 1, IPSET_MAXNAMELEN - 1, IPSET_MAXNAMELEN, MaxNameLen,
                            BUFF_SZ}}
        \cup {Blocklist}

AddrsV4 == {<<192, 168, 1, 1>>}

AddrsV6 == {<<254, 128, 0, 0, 0, 0, 0, 0, 255, 254, 253, 252, 251, 250, 249, 1>>}

\* addr with addr_len = Len(addr); lengths 0 and 5 are not address lengths
Addrs == AddrsV4 \cup AddrsV6 \cup {<< >>, <<1, 2, 3, 4, 5>>}

\* the values of a 32-bit timeout: 0, 30 and 0x01020304
Timeouts32 == {<<0, 0, 0, 0>>, <<0, 0, 0, 30>>, <<1, 2, 3, 4>>}

\* the timeouts a caller passes in an unsigned long of sz bytes; with 8 bytes
\* also 2^32 + 30
Timeouts(sz) ==
    IF sz = 4 THEN Timeouts32
    ELSE {ToULong(x, sz) : x \in Timeouts32} \cup {<<0, 0, 0, 1, 0, 0, 0, 30>>}

Fds == {0} \cup (3..MaxFd)

SocketErrnos == {EACCES}

SendErrnos == {EAGAIN, EINTR, EPERM}

Threads == {1}

(* ------------------------------- state -------------------------------- *)
VARIABLES
    ipset_fd,                      \* static int ipset_fd
    openFds,                       \* descriptors socket() has returned, never closed
    dns_conf_ipset_timeout_enable, \* configuration flag of dns_conf.h
    sizeofLong,                    \* sizeof(unsigned long) of the build
    littleEndian,                  \* byte order of the host
    th                             \* per thread: position, arguments and locals of the call

vars == <<ipset_fd, openFds, dns_conf_ipset_timeout_enable, sizeofLong, littleEndian, th>>

\* the thread's frame before its first call
IdleFrame ==
    [pc |-> "idle", operate |-> 0, ipsetname |-> << >>, addr |-> << >>,
     timeout |-> << >>, arg_timeout |-> << >>, af |-> 0, buffer |-> ZeroBuffer,
     nested |-> <<0, 0>>, rc |-> 0, ret |-> 0, errno |-> NoErrno, nsend |-> 0,
     oob |-> FALSE, entry_fd |-> 0, entry_open |-> {}, sent |-> << >>,
     socket_ret |-> << >>, seen_fd |-> 0, seen_open |-> {}]

Init ==
    /\ ipset_fd = 0
    /\ openFds = {}
    /\ dns_conf_ipset_timeout_enable \in BOOLEAN
    /\ sizeofLong \in {4, 8}
    /\ littleEndian \in BOOLEAN
    /\ th = [t \in Threads |-> IdleFrame]

Globals == <<dns_conf_ipset_timeout_enable, sizeofLong, littleEndian>>

Socket == <<ipset_fd, openFds>>

\* a new frame for a call.  errno holds what this call has stored in errno,
\* NoErrno until it stores one: the code reads errno only after a failed
\* sendto, which has stored it
Enter(t, op, name, a, tmo) ==
    th' = [th EXCEPT ![t] =
             [IdleFrame EXCEPT !.pc = "check_addr", !.operate = op, !.ipsetname = name,
                               !.addr = a, !.timeout = tmo, !.arg_timeout = tmo,
                               !.entry_fd = ipset_fd, !.entry_open = openFds]]

Callable(t) == th[t].pc = "idle"

\* more than one thread calls into the encoder
Concurrent == Cardinality(DOMAIN th) > 1

\* the arguments callers pass; concurrent callers pass the blocklist scenario
CallNames == IF Concurrent THEN {Blocklist} ELSE Names
CallAddrs == IF Concurrent THEN AddrsV4 ELSE Addrs
CallTimeouts == IF Concurrent THEN {ToULong(<<0, 0, 0, 30>>, sizeofLong)}
                ELSE Timeouts(sizeofLong)


\* the operations a thread asks for; of concurrent callers the first adds and
\* the others delete
CallOps(t) ==
    IF Concurrent THEN (IF t = 1 THEN {IPSET_ADD} ELSE {IPSET_DEL})
    ELSE {IPSET_ADD, IPSET_DEL}

\* the sendto calls followed in one call of a thread
SendLimit == IF Concurrent THEN 1 ELSE MaxSends

\* int ipset_add(ipsetname, addr, addr_len, timeout)
ipset_add(t) ==
    /\ Callable(t)
    /\ IPSET_ADD \in CallOps(t)
    /\ \E name \in CallNames, a \in CallAddrs, tmo \in CallTimeouts :
          Enter(t, IPSET_ADD, name, a, tmo)
    /\ UNCHANGED <<Socket, Globals>>

\* int ipset_del(ipsetname, addr, addr_len): timeout argument 0
ipset_del(t) ==
    /\ Callable(t)
    /\ IPSET_DEL \in CallOps(t)
    /\ \E name \in CallNames, a \in CallAddrs :
          Enter(t, IPSET_DEL, name, a, Zeros(sizeofLong))
    /\ UNCHANGED <<Socket, Globals>>

\* return -1 with errno set
Fail(t, e) == th' = [th EXCEPT ![t].pc = "done", ![t].ret = -1, ![t].errno = e]

Goto(t, label) == th' = [th EXCEPT ![t].pc = label]

\* a bug the address check could have: no length is refused
AddrFamily_Unchecked(len) == IF len = IPV4_ADDR_LEN THEN AF_INET ELSE AF_INET6

\* the two tests of addr_len: the address family, or -1 where the code
\* stores EINVAL and returns -1
AddrFamily(len) ==
    IF len # IPV4_ADDR_LEN /\ len # IPV6_ADDR_LEN THEN -1
    ELSE IF len = IPV4_ADDR_LEN THEN AF_INET
    ELSE IF len = IPV6_ADDR_LEN THEN AF_INET6
    ELSE -1

CheckAddrLen(t) ==
    /\ th[t].pc = "check_addr"
    /\ IF AddrFamily(Len(th[t].addr)) = -1
       THEN Fail(t, EINVAL)
       ELSE th' = [th EXCEPT ![t].pc = "socket_init",
                             ![t].af = AddrFamily(Len(th[t].addr))]
    /\ UNCHANGED <<Socket, Globals>>

\* a bug the socket test could have: a socket is created by every call
HaveSocket_Never(fd) == FALSE

\* a bug the test could have: the -1 of a failed creation taken for a socket
HaveSocket_NonZero(fd) == fd # 0

HaveSocket(fd) == fd > 0

\* _ipset_socket_init: if (ipset_fd > 0) return 0
SocketInitTest(t) ==
    /\ th[t].pc = "socket_init"
    /\ th' = [th EXCEPT ![t].pc = IF HaveSocket(ipset_fd) THEN "check_name"
                                  ELSE "socket_create",
                        ![t].seen_fd = ipset_fd,
                        ![t].seen_open = openFds]
    /\ UNCHANGED <<Socket, Globals>>

\* ipset_fd = socket(AF_NETLINK, SOCK_RAW, NETLINK_NETFILTER): a descriptor
\* that is not open, or -1 with errno set
SocketCreate(t) ==
    /\ th[t].pc = "socket_create"
    /\ \/ \E fd \in Fds \ openFds :
            /\ ipset_fd' = fd
            /\ openFds' = openFds \cup {fd}
            /\ th' = [th EXCEPT ![t].pc = "socket_result", ![t].socket_ret = <<fd>>]
       \/ \E e \in SocketErrnos :
            /\ ipset_fd' = -1
            /\ openFds' = openFds
            /\ th' = [th EXCEPT ![t].pc = "socket_result", ![t].errno = e,
                                ![t].socket_ret = <<-1>>]
    /\ UNCHANGED Globals

\* the values the test after socket() can read in ipset_fd: what is in the
\* static now, or what this thread has just stored, which the build may have
\* kept in a register; the two differ only if another thread has stored since
JustStored(t) == {ipset_fd} \cup {th[t].socket_ret[i] : i \in DOMAIN th[t].socket_ret}

\* a bug the call could have: the result of _ipset_socket_init not looked at
SocketInitResult_Ignored(t) ==
    /\ th[t].pc = "socket_result"
    /\ Goto(t, "check_name")
    /\ UNCHANGED <<Socket, Globals>>

\* if (ipset_fd < 0) return -1, and the caller's return -1
SocketInitResult(t) ==
    /\ th[t].pc = "socket_result"
    /\ \E fd \in JustStored(t) :
          IF fd < 0
          THEN th' = [th EXCEPT ![t].pc = "done", ![t].ret = -1]
          ELSE Goto(t, "check_name")
    /\ UNCHANGED <<Socket, Globals>>

\* a bug the name check could have: no name is refused
NameFits_Any(name) == TRUE

\* a bug the name check could have: a name of IPSET_MAXNAMELEN characters passes
NameFits_OffByOne(name) == Len(name) <= IPSET_MAXNAMELEN

NameFits(name) == Len(name) < IPSET_MAXNAMELEN

\* if (strlen(ipsetname) >= IPSET_MAXNAMELEN)
CheckName(t) ==
    /\ th[t].pc = "check_name"
    /\ IF ~NameFits(th[t].ipsetname) THEN Fail(t, ENAMETOOLONG) ELSE Goto(t, "header")
    /\ UNCHANGED <<Socket, Globals>>

(* ------------------------- building the message ----------------------- *)
RECURSIVE BitOr(_, _)
\* a | b
BitOr(a, b) ==
    IF a = 0 THEN b
    ELSE IF b = 0 THEN a
    ELSE (IF a % 2 = 1 \/ b % 2 = 1 THEN 1 ELSE 0) + 2 * BitOr(a \div 2, b \div 2)

\* netlink_head->nlmsg_len = v
SetNlmsgLen(buf, le, v) == Write(buf, 0, U32Bytes(v, le))

\* where _ipset_add_attr puts the attribute: NETLINK_ALIGN(netlink_head->nlmsg_len)
AttrOffset(buf, le) == NETLINK_ALIGN(NlmsgLen(buf, le))

\* a bug the encoder could have: the padding counted in the declared length
AttrPayloadLen_Aligned(len) == NETLINK_ALIGN(SizeofNetlinkAttr) + NETLINK_ALIGN(len)

\* uint16_t payload_len = NETLINK_ALIGN(sizeof(struct ipset_netlink_attr)) + len
AttrPayloadLen(len) == (NETLINK_ALIGN(SizeofNetlinkAttr) + len) % 65536

\* a bug the encoder could have: nlmsg_len advanced by payload_len, not aligned
AddAttr_Unaligned(buf, le, type, data) ==
    LET off == AttrOffset(buf, le)
        payload_len == AttrPayloadLen(Len(data))
        b1 == Write(buf, off + 2, U16Bytes(type, le))
        b2 == Write(b1, off, U16Bytes(payload_len, le))
        b3 == Write(b2, off + NETLINK_ALIGN(SizeofNetlinkAttr), data)
    IN  SetNlmsgLen(b3, le, NlmsgLen(b3, le) + payload_len)

\* _ipset_add_attr(netlink_head, type, len, data), with len = Len(data)
AddAttr(buf, le, type, data) ==
    LET off == AttrOffset(buf, le)
        payload_len == AttrPayloadLen(Len(data))
        b1 == Write(buf, off + 2, U16Bytes(type, le))
        b2 == Write(b1, off, U16Bytes(payload_len, le))
        b3 == Write(b2, off + NETLINK_ALIGN(SizeofNetlinkAttr), data)
    IN  SetNlmsgLen(b3, le, NlmsgLen(b3, le) + NETLINK_ALIGN(payload_len))

\* does that call store past the end of buffer
AddAttrOverruns(buf, le, data) ==
    Overruns(AttrOffset(buf, le), NETLINK_ALIGN(SizeofNetlinkAttr) + Len(data))

\* operate | (NFNL_SUBSYS_IPSET << 8)
MsgType(operate) == BitOr(operate, NFNL_SUBSYS_IPSET * 256)

\* a bug the header could have: NLM_F_REPLACE left out
MsgFlags_RequestOnly == NLM_F_REQUEST

MsgFlags == BitOr(NLM_F_REQUEST, NLM_F_REPLACE)

\* memset, the netlink header and the protocol header
InitialBuffer(operate, af, le) ==
    LET b0 == ZeroBuffer
        b1 == SetNlmsgLen(b0, le, NETLINK_ALIGN(SizeofNlmsghdr))
        b2 == Write(b1, 4, U16Bytes(MsgType(operate), le))
        b3 == Write(b2, 6, U16Bytes(MsgFlags, le))
        msg == NlmsgLen(b3, le)
        b4 == SetNlmsgLen(b3, le, NlmsgLen(b3, le) + NETLINK_ALIGN(SizeofNetlinkMsg))
        b5 == Write(b4, msg, <<af, NFNETLINK_V0>>)
    IN  Write(b5, msg + 2, <<0, 0>>)

BuildHeader(t) ==
    /\ th[t].pc = "header"
    /\ th' = [th EXCEPT ![t].pc = "attr_protocol",
                        ![t].buffer = InitialBuffer(th[t].operate, th[t].af, littleEndian)]
    /\ UNCHANGED <<Socket, Globals>>

\* one call of _ipset_add_attr by thread t, then on to label
AppendAttr(t, type, data, label) ==
    th' = [th EXCEPT ![t].pc = label,
                     ![t].buffer = AddAttr(th[t].buffer, littleEndian, type, data),
                     ![t].oob = th[t].oob
                                \/ AddAttrOverruns(th[t].buffer, littleEndian, data)]

\* _ipset_add_attr(netlink_head, IPSET_ATTR_PROTOCOL, sizeof(proto), &proto)
AddProtocol(t) ==
    /\ th[t].pc = "attr_protocol"
    /\ AppendAttr(t, IPSET_ATTR_PROTOCOL, <<IPSET_PROTOCOL>>, "attr_setname")
    /\ UNCHANGED <<Socket, Globals>>

\* a bug the name attribute could have: strlen(ipsetname) bytes, no terminator
CString_NoTerminator(name) == name

\* the characters of a string and its terminator
CString(name) == name \o <<0>>

\* _ipset_add_attr(netlink_head, IPSET_ATTR_SETNAME, strlen(ipsetname) + 1, ipsetname)
AddSetname(t) ==
    /\ th[t].pc = "attr_setname"
    /\ AppendAttr(t, IPSET_ATTR_SETNAME, CString(th[t].ipsetname), "open_data")
    /\ UNCHANGED <<Socket, Globals>>

\* nested[k] = buffer + NETLINK_ALIGN(nlmsg_len); nlmsg_len += 4; nested[k]->type = ...
OpenNested(t, k, type, label) ==
    LET buf == th[t].buffer
        off == AttrOffset(buf, littleEndian)
        b1 == SetNlmsgLen(buf, littleEndian,
                          NlmsgLen(buf, littleEndian) + NETLINK_ALIGN(SizeofNetlinkAttr))
        b2 == Write(b1, off + 2, U16Bytes(BitOr(NLA_F_NESTED, type), littleEndian))
    IN  th' = [th EXCEPT ![t].pc = label, ![t].buffer = b2,
                         ![t].nested = [th[t].nested EXCEPT ![k] = off],
                         ![t].oob = th[t].oob \/ Overruns(off, SizeofNetlinkAttr)]

OpenData(t) ==
    /\ th[t].pc = "open_data"
    /\ OpenNested(t, 1, IPSET_ATTR_DATA, "open_ip")
    /\ UNCHANGED <<Socket, Globals>>

OpenIp(t) ==
    /\ th[t].pc = "open_ip"
    /\ OpenNested(t, 2, IPSET_ATTR_IP, "attr_addr")
    /\ UNCHANGED <<Socket, Globals>>

\* a bug the address attribute could have: the IPv4 marker for every address
AddrAttrType_AlwaysV4(af) == BitOr(IPSET_ATTR_IPADDR_IPV4, NLA_F_NET_BYTEORDER)

\* (af == AF_INET ? IPSET_ATTR_IPADDR_IPV4 : IPSET_ATTR_IPADDR_IPV6) | NLA_F_NET_BYTEORDER
AddrAttrType(af) ==
    BitOr(IF af = AF_INET THEN IPSET_ATTR_IPADDR_IPV4 ELSE IPSET_ATTR_IPADDR_IPV6,
          NLA_F_NET_BYTEORDER)

AddAddr(t) ==
    /\ th[t].pc = "attr_addr"
    /\ AppendAttr(t, AddrAttrType(th[t].af), th[t].addr, "close_ip")
    /\ UNCHANGED <<Socket, Globals>>

\* a bug the framing could have: the other container's header is patched
CloseNested_WrongHandle(t, k, label) ==
    LET buf == th[t].buffer
        other == 3 - k
        len == (AttrOffset(buf, littleEndian) - th[t].nested[other]) % 65536
    IN  th' = [th EXCEPT ![t].pc = label,
                         ![t].buffer = Write(buf, th[t].nested[other],
                                             U16Bytes(len, littleEndian)),
                         ![t].oob = th[t].oob \/ Overruns(th[t].nested[other], 2)]

\* nested[k]->len = buffer + NETLINK_ALIGN(nlmsg_len) - nested[k]
CloseNested(t, k, label) ==
    LET buf == th[t].buffer
        len == (AttrOffset(buf, littleEndian) - th[t].nested[k]) % 65536
    IN  th' = [th EXCEPT ![t].pc = label,
                         ![t].buffer = Write(buf, th[t].nested[k],
                                             U16Bytes(len, littleEndian)),
                         ![t].oob = th[t].oob \/ Overruns(th[t].nested[k], 2)]

CloseIp(t) ==
    /\ th[t].pc = "close_ip"
    /\ CloseNested(t, 2, "timeout")
    /\ UNCHANGED <<Socket, Globals>>

\* _ipset_support_timeout(ipsetname)
IpsetSupportTimeout(name, enable) == IF enable THEN 0 ELSE -1

\* a bug the timeout test could have: the configuration is not asked
WantTimeout_Ungated(tmo, name, enable) == IsPositive(tmo)

\* if (timeout > 0 && _ipset_support_timeout(ipsetname) == 0)
WantTimeout(tmo, name, enable) == IsPositive(tmo) /\ IpsetSupportTimeout(name, enable) = 0

\* timeout = htonl(timeout): the argument converted to uint32_t, the result
\* stored in the unsigned long
HtonlTimeout(tmo, sz, le) == ToULong(Htonl(ToUint32(tmo), le), sz)

\* sizeof(timeout) bytes at &timeout
TimeoutData(tmo, le) == ObjectBytes(tmo, le)

AddTimeout(t) ==
    /\ th[t].pc = "timeout"
    /\ IF WantTimeout(th[t].timeout, th[t].ipsetname, dns_conf_ipset_timeout_enable)
       THEN LET tmo == HtonlTimeout(th[t].timeout, sizeofLong, littleEndian)
                data == TimeoutData(tmo, littleEndian)
            IN  th' = [th EXCEPT
                         ![t].pc = "close_data",
                         ![t].timeout = tmo,
                         ![t].buffer = AddAttr(th[t].buffer, littleEndian,
                                               BitOr(IPSET_ATTR_TIMEOUT, NLA_F_NET_BYTEORDER),
                                               data),
                         ![t].oob = th[t].oob
                                    \/ AddAttrOverruns(th[t].buffer, littleEndian, data)]
       ELSE Goto(t, "close_data")
    /\ UNCHANGED <<Socket, Globals>>

CloseData(t) ==
    /\ th[t].pc = "close_data"
    /\ CloseNested(t, 1, "send")
    /\ UNCHANGED <<Socket, Globals>>

(* ------------------------------ transport ----------------------------- *)
\* a bug the send could have: the whole scratch buffer handed over
Datagram_Whole(buf, le) == [i \in 1..BUFF_SZ |-> buf[i - 1]]

\* the bytes sendto is handed: buffer, netlink_head->nlmsg_len
Datagram(buf, le) == [i \in 1..NlmsgLen(buf, le) |-> buf[i - 1]]
\* rc = sendto(ipset_fd, buffer, netlink_head->nlmsg_len, ...): the whole
\* datagram is taken, or -1 with errno set
Sendto(t) ==
    /\ th[t].pc = "send"
    /\ th[t].nsend < SendLimit
    /\ LET msg == Datagram(th[t].buffer, littleEndian)
       IN  \/ th' = [th EXCEPT ![t].pc = "send_check",
                               ![t].rc = Len(msg),
                               ![t].nsend = @ + 1,
                               ![t].sent = Append(@, msg)]
           \/ \E e \in SendErrnos :
                th' = [th EXCEPT ![t].pc = "send_check", ![t].rc = -1, ![t].errno = e,
                                 ![t].nsend = @ + 1,
                                 ![t].sent = Append(@, msg)]
    /\ UNCHANGED <<Socket, Globals>>

\* if (rc >= 0) break
SendDone(rc) == rc >= 0

\* errno == EAGAIN || errno == EWOULDBLOCK || errno == EINTR
IsTransient(e) == e = EAGAIN \/ e = EWOULDBLOCK \/ e = EINTR

\* a bug the loop could have: it is left after the first sendto, whatever it returned
AfterSend_NoRetry(rc, e) == "return"

\* where the loop goes after a sendto that returned rc with errno e
AfterSend(rc, e) ==
    IF SendDone(rc) THEN "return"
    ELSE IF IsTransient(e) THEN "sleep"
    ELSE "send"

SendCheck(t) ==
    /\ th[t].pc = "send_check"
    /\ Goto(t, AfterSend(th[t].rc, th[t].errno))
    /\ UNCHANGED <<Socket, Globals>>

\* nanosleep(&waiter, NULL); continue
Nanosleep(t) ==
    /\ th[t].pc = "sleep"
    /\ Goto(t, "send")
    /\ UNCHANGED <<Socket, Globals>>

\* return rc
Return(t) ==
    /\ th[t].pc = "return"
    /\ th' = [th EXCEPT ![t].pc = "done", ![t].ret = th[t].rc]
    /\ UNCHANGED <<Socket, Globals>>

\* ipset_add and ipset_del hand the result to their caller: the frame of
\* _ipset_operate is gone
Leave(t) ==
    /\ th[t].pc = "done"
    /\ th' = [th EXCEPT ![t] = IdleFrame]
    /\ UNCHANGED <<Socket, Globals>>

(* ---------------------------- specification --------------------------- *)
Next ==
    \E t \in DOMAIN th :
        \/ ipset_add(t)
        \/ ipset_del(t)
        \/ CheckAddrLen(t)
        \/ SocketInitTest(t)
        \/ SocketCreate(t)
        \/ SocketInitResult(t)
        \/ CheckName(t)
        \/ BuildHeader(t)
        \/ AddProtocol(t)
        \/ AddSetname(t)
        \/ OpenData(t)
        \/ OpenIp(t)
        \/ AddAddr(t)
        \/ CloseIp(t)
        \/ AddTimeout(t)
        \/ CloseData(t)
        \/ Sendto(t)
        \/ SendCheck(t)
        \/ Nanosleep(t)
        \/ Return(t)
        \/ Leave(t)

Spec == Init /\ [][Next]_vars

\* two threads of one process, on a little-endian build with 8-byte long and
\* timeouts enabled, each making its first call of ipset_add or ipset_del
ThreadsTwo == {1, 2}

InitTwo ==
    /\ ipset_fd = 0
    /\ openFds = {}
    /\ dns_conf_ipset_timeout_enable = TRUE
    /\ sizeofLong = 8
    /\ littleEndian = TRUE
    /\ th = [t \in ThreadsTwo |-> IdleFrame]

\* the steps of the first calls: no thread comes back for another call
NextTwo ==
    \E t \in DOMAIN th :
        \/ ipset_add(t)
        \/ ipset_del(t)
        \/ CheckAddrLen(t)
        \/ SocketInitTest(t)
        \/ SocketCreate(t)
        \/ SocketInitResult(t)
        \/ CheckName(t)
        \/ BuildHeader(t)
        \/ AddProtocol(t)
        \/ AddSetname(t)
        \/ OpenData(t)
        \/ OpenIp(t)
        \/ AddAddr(t)
        \/ CloseIp(t)
        \/ AddTimeout(t)
        \/ CloseData(t)
        \/ Sendto(t)
        \/ SendCheck(t)
        \/ Nanosleep(t)
        \/ Return(t)

SpecTwo == InitTwo /\ [][NextTwo]_vars

(* ------------------ reading a finished message back ------------------- *)
\* the frames of the threads
Frames == {th[t] : t \in DOMAIN th}

\* the frame holds a finished message: DATA has been closed
Built(f) ==
    \/ f.pc \in {"send", "send_check", "sleep", "return"}
    \/ f.pc = "done" /\ f.nsend > 0

AttrLenAt(buf, off) == GetU16(buf, off, littleEndian)

AttrTypeAt(buf, off) == GetU16(buf, off + 2, littleEndian)

\* the attribute type without the nested and byte-order bits
AttrKindAt(buf, off) == AttrTypeAt(buf, off) % NLA_F_NET_BYTEORDER

AttrPayload(buf, off) ==
    [i \in 1..(AttrLenAt(buf, off) - SizeofNetlinkAttr) |-> buf[off + SizeofNetlinkAttr - 1 + i]]

RECURSIVE AttrOffsets(_, _, _)
\* the offsets of the attributes that lie one after the other in [off, end)
AttrOffsets(buf, off, end) ==
    IF off + SizeofNetlinkAttr > end THEN << >>
    ELSE IF AttrLenAt(buf, off) < SizeofNetlinkAttr THEN <<off>>
    ELSE <<off>> \o AttrOffsets(buf, off + NETLINK_ALIGN(AttrLenAt(buf, off)), end)

\* the children of the nested attribute at off
Children(buf, off) ==
    AttrOffsets(buf, off + SizeofNetlinkAttr, off + AttrLenAt(buf, off))

HeadersEnd == NETLINK_ALIGN(SizeofNlmsghdr) + NETLINK_ALIGN(SizeofNetlinkMsg)

TopAttrs(buf) == AttrOffsets(buf, HeadersEnd, NlmsgLen(buf, littleEndian))

\* PROTOCOL, SETNAME, DATA{IP{address}, optional TIMEOUT}
ProtocolOff(buf) == TopAttrs(buf)[1]
SetnameOff(buf) == TopAttrs(buf)[2]
DataOff(buf) == TopAttrs(buf)[3]
IpOff(buf) == Children(buf, DataOff(buf))[1]
AddressOff(buf) == Children(buf, IpOff(buf))[1]

\* the children of DATA that are TIMEOUT attributes
TimeoutOffs(buf) ==
    LET c == Children(buf, DataOff(buf))
    IN  {c[i] : i \in {j \in 1..Len(c) : AttrKindAt(buf, c[j]) = IPSET_ATTR_TIMEOUT}}

HasTimeoutAttr(buf) == TimeoutOffs(buf) # {}

TimeoutOff(buf) == CHOOSE o \in TimeoutOffs(buf) : TRUE

LastChild(buf, off) == Children(buf, off)[Len(Children(buf, off))]

\* the protocol header's family byte
FamilyOf(buf) == buf[NETLINK_ALIGN(SizeofNlmsghdr)]

RECURSIVE UpToNul(_)
\* the characters of a string stored with its terminator
UpToNul(s) == IF s = << >> \/ Head(s) = 0 THEN << >> ELSE <<Head(s)>> \o UpToNul(Tail(s))

ParsedName(buf) == UpToNul(AttrPayload(buf, SetnameOff(buf)))

ParsedAddress(buf) == AttrPayload(buf, AddressOff(buf))

\* the 4-byte seconds of the TIMEOUT attribute, in network byte order
ParsedTimeout(buf) == SubSeq(AttrPayload(buf, TimeoutOff(buf)), 1, 4)

\* the errors a finished call reports
NameTooLong(f) == f.pc = "done" /\ f.ret = -1 /\ f.errno = ENAMETOOLONG

InvalidAddress(f) == f.pc = "done" /\ f.ret = -1 /\ f.errno = EINVAL

AddrOk(f) == Len(f.addr) \in {IPV4_ADDR_LEN, IPV6_ADDR_LEN}

\* the socket state is what it was when the call began
SocketAsAtEntry(f) == ipset_fd = f.entry_fd /\ openFds = f.entry_open

(* ------------------------------- claims ------------------------------- *)

\* C1 as stated: for add and delete with a valid address, the call reports
\* NameTooLong (return -1, errno ENAMETOOLONG) exactly when the set name has 32
\* or more characters, in every socket state, also when socket creation fails.
C1_NameTooLongAlways ==
    \A f \in Frames :
        f.pc = "done" /\ AddrOk(f) =>
            (NameTooLong(f) <=> Len(f.ipsetname) >= IPSET_MAXNAMELEN)

\* C1 amended: for add and delete with a valid address, a name of 0..31
\* characters never reports NameTooLong; a name of 32 or more characters reports
\* it whenever the socket exists or its creation succeeds, and when the creation
\* fails the call returns -1 with the errno of socket() instead.
C1_NameTooLong ==
    \A f \in Frames :
        f.pc = "done" /\ AddrOk(f) =>
            /\ Len(f.ipsetname) < IPSET_MAXNAMELEN => ~NameTooLong(f)
            /\ Len(f.ipsetname) >= IPSET_MAXNAMELEN /\ ipset_fd >= 0 => NameTooLong(f)
            /\ Len(f.ipsetname) >= IPSET_MAXNAMELEN /\ ipset_fd < 0 =>
                   f.ret = -1 /\ f.errno \in SocketErrnos /\ f.nsend = 0

\* a delete of a 32-character name is refused with NameTooLong
C1_Witness ==
    \E f \in Frames :
        /\ f.operate = IPSET_DEL
        /\ Len(f.ipsetname) = IPSET_MAXNAMELEN
        /\ NameTooLong(f)

\* C2: for add and delete, an address length other than 4 and 16 fails with
\* InvalidAddress (return -1, errno EINVAL) whatever the name and the socket
\* state are; the call never leaves the address check, so it creates no
\* socket and sends nothing.
C2_InvalidAddress ==
    \A f \in Frames :
        f.pc # "idle" /\ ~AddrOk(f) =>
            /\ f.pc \in {"check_addr", "done"}
            /\ f.pc = "done" => InvalidAddress(f)
            /\ f.nsend = 0
            /\ SocketAsAtEntry(f)

\* a 5-byte address with a name that is too long, refused before any socket exists
C2_Witness ==
    \E f \in Frames :
        /\ InvalidAddress(f)
        /\ Len(f.addr) = 5
        /\ Len(f.ipsetname) > IPSET_MAXNAMELEN
        /\ openFds = {}

\* C3 as stated: a call refused because the name is too long has sent nothing
\* and leaves the socket handle as it was when the call began, also when it is
\* the first call of the process.
C3_NoSideEffects ==
    \A f \in Frames :
        NameTooLong(f) => f.nsend = 0 /\ SocketAsAtEntry(f)

\* C3 amended: a call refused because the name is too long has sent nothing; a
\* handle that held a socket (descriptor > 0) when the call began is as it was;
\* when it held none (the first call, or after a failed creation) the refused
\* call has created the socket and stored it in the handle before refusing.
C3_NothingSent ==
    \A f \in Frames :
        NameTooLong(f) =>
            /\ f.nsend = 0
            /\ f.entry_fd > 0 => SocketAsAtEntry(f)
            /\ f.entry_fd <= 0 =>
                   /\ ipset_fd \notin f.entry_open
                   /\ openFds = f.entry_open \cup {ipset_fd}

\* the first call of the process, with a 33-character name: refused, and a
\* socket now exists
C3_Witness ==
    \E f \in Frames :
        /\ NameTooLong(f)
        /\ Len(f.ipsetname) = 33
        /\ f.entry_fd = 0 /\ f.entry_open = {}
        /\ openFds # {}

\* a later call with a 33-character name, the socket already there
C3_WitnessReuse ==
    \E f \in Frames :
        NameTooLong(f) /\ f.entry_fd > 0 /\ SocketAsAtEntry(f)

\* the transient errors of section 4.5
TransientSet == {EAGAIN, EWOULDBLOCK, EINTR}

\* the frame has just had a sendto fail with an error outside the transient set
FatalSendFailure(f) == f.pc = "send_check" /\ f.rc < 0 /\ f.errno \notin TransientSet

\* C4 as stated: when a sendto fails with an error outside {EAGAIN, EWOULDBLOCK,
\* EINTR}, the operation leaves the send loop and returns the failure to its
\* caller: the next step of the call is its return of the negative result.
C4_FatalErrorSurfaces ==
    [][\A t \in DOMAIN th :
          FatalSendFailure(th[t]) /\ th'[t] # th[t] =>
              th'[t].pc \in {"return", "done"} /\ th'[t].rc < 0]_vars

\* C5: a sendto that fails with EAGAIN, EWOULDBLOCK or EINTR is followed by the
\* sleep and another sendto, however many have failed before; after the first
\* non-negative result no further sendto is made and that result is what the
\* call returns, so a call that has sent never returns a failure.
C5_TransientRetried ==
    /\ [](\A f \in Frames :
             /\ f.pc = "return" => f.rc >= 0
             /\ f.pc = "done" /\ f.nsend > 0 =>
                    f.ret >= 0 /\ f.ret = f.rc /\ f.ret = NlmsgLen(f.buffer, littleEndian))
    /\ [][\A t \in DOMAIN th :
             /\ th[t].pc = "send_check" /\ th[t].rc < 0 /\ th[t].errno \in TransientSet
                   /\ th'[t] # th[t]
                   => th'[t].pc = "sleep" /\ th'[t].nsend = th[t].nsend
             /\ th[t].pc = "sleep" /\ th'[t] # th[t]
                   => th'[t].pc = "send" /\ th'[t].nsend = th[t].nsend
             /\ th[t].pc = "send" /\ th'[t] # th[t]
                   => th'[t].pc = "send_check" /\ th'[t].nsend = th[t].nsend + 1
             /\ th[t].pc = "send_check" /\ th[t].rc >= 0 /\ th'[t] # th[t]
                   => th'[t].pc = "return" /\ th'[t].nsend = th[t].nsend
                      /\ th'[t].rc = th[t].rc
             /\ th[t].pc = "return" /\ th'[t] # th[t]
                   => th'[t].pc = "done" /\ th'[t].nsend = th[t].nsend
                      /\ th'[t].ret = th[t].rc]_vars

\* a call returns the byte count of its last sendto after every earlier one
\* failed with EINTR or EAGAIN
C5_Witness ==
    \E f \in Frames :
        /\ f.pc = "done"
        /\ f.nsend = MaxSends
        /\ f.errno \in TransientSet
        /\ f.ret > 0

\* C6 as stated: once socket() has succeeded, for any descriptor it returned
\* (0 included), no later step creates a socket or changes the handle.
C6_CreatedOnce ==
    [][openFds # {} => ipset_fd' = ipset_fd /\ openFds' = openFds]_vars

\* the end of the attribute at off, padding included
AttrEnd(buf, off) == off + NETLINK_ALIGN(AttrLenAt(buf, off))

\* the caller asked for a timeout that the configuration allows
TimeoutAsked(f) ==
    f.operate = IPSET_ADD /\ IsPositive(f.arg_timeout) /\ dns_conf_ipset_timeout_enable

\* C7: the finished message holds a TIMEOUT attribute exactly when the operation
\* is Add, timeout > 0 and dns_conf_ipset_timeout_enable is set; it is then the
\* only TIMEOUT and the last child of DATA, it starts where the closed IP
\* container ends and DATA ends where it ends; it is written while IP is closed
\* and DATA is still open. A Delete message holds no TIMEOUT attribute.
C7_TimeoutPresence ==
    \A f \in Frames :
        /\ Built(f) =>
              /\ HasTimeoutAttr(f.buffer) <=> TimeoutAsked(f)
              /\ f.operate = IPSET_DEL => ~HasTimeoutAttr(f.buffer)
              /\ HasTimeoutAttr(f.buffer) =>
                    /\ Cardinality(TimeoutOffs(f.buffer)) = 1
                    /\ AttrTypeAt(f.buffer, TimeoutOff(f.buffer))
                          = IPSET_ATTR_TIMEOUT + NLA_F_NET_BYTEORDER
                    /\ TimeoutOff(f.buffer) = LastChild(f.buffer, DataOff(f.buffer))
                    /\ TimeoutOff(f.buffer) = AttrEnd(f.buffer, IpOff(f.buffer))
                    /\ AttrEnd(f.buffer, TimeoutOff(f.buffer))
                          = DataOff(f.buffer) + AttrLenAt(f.buffer, DataOff(f.buffer))
                    /\ AttrEnd(f.buffer, TimeoutOff(f.buffer))
                          = NlmsgLen(f.buffer, littleEndian)
        /\ f.pc \in {"timeout", "close_data"} =>
              /\ AttrLenAt(f.buffer, f.nested[1]) = 0
              /\ AttrLenAt(f.buffer, f.nested[2])
                    = NlmsgLen(f.buffer, littleEndian) - f.nested[2]
                      - (IF f.pc = "close_data" /\ TimeoutAsked(f)
                         THEN NETLINK_ALIGN(SizeofNetlinkAttr + sizeofLong) ELSE 0)

\* an Add with timeout 30 and timeouts enabled carries a TIMEOUT attribute
C7_Witness ==
    \E f \in Frames :
        /\ Built(f)
        /\ f.operate = IPSET_ADD
        /\ ToUint32(f.arg_timeout) = <<0, 0, 0, 30>>
        /\ HasTimeoutAttr(f.buffer)

\* a Delete with timeouts enabled carries none
C7_WitnessDelete ==
    \E f \in Frames :
        /\ Built(f)
        /\ f.operate = IPSET_DEL
        /\ dns_conf_ipset_timeout_enable
        /\ ~HasTimeoutAttr(f.buffer)

\* C8 as stated: an emitted TIMEOUT attribute has declared_length 4 + 4 and its
\* 4 payload bytes are the caller's timeout in network byte order, for every
\* timeout the unsigned long parameter can hold.
C8_TimeoutPayload ==
    \A f \in Frames :
        Built(f) /\ HasTimeoutAttr(f.buffer) =>
            /\ AttrLenAt(f.buffer, TimeoutOff(f.buffer)) = SizeofNetlinkAttr + 4
            /\ ToULong(AttrPayload(f.buffer, TimeoutOff(f.buffer)), sizeofLong)
                  = f.arg_timeout

\* C9: in a finished message the family byte and the type of the address
\* attribute follow from the address length alone: 16 bytes give AF_INET6 and
\* IPADDR_IPV6 | NET_BYTEORDER, 4 bytes give AF_INET and IPADDR_IPV4 |
\* NET_BYTEORDER; the attribute's payload is the address bytes unchanged.
C9_AddressFamily ==
    \A f \in Frames :
        Built(f) =>
            /\ Len(f.addr) \in {IPV4_ADDR_LEN, IPV6_ADDR_LEN}
            /\ Len(f.addr) = IPV6_ADDR_LEN =>
                  /\ FamilyOf(f.buffer) = AF_INET6
                  /\ AttrTypeAt(f.buffer, AddressOff(f.buffer))
                        = IPSET_ATTR_IPADDR_IPV6 + NLA_F_NET_BYTEORDER
            /\ Len(f.addr) = IPV4_ADDR_LEN =>
                  /\ FamilyOf(f.buffer) = AF_INET
                  /\ AttrTypeAt(f.buffer, AddressOff(f.buffer))
                        = IPSET_ATTR_IPADDR_IPV4 + NLA_F_NET_BYTEORDER
            /\ AttrLenAt(f.buffer, AddressOff(f.buffer)) = SizeofNetlinkAttr + Len(f.addr)
            /\ ParsedAddress(f.buffer) = f.addr
            /\ Len(Children(f.buffer, IpOff(f.buffer))) = 1

\* a finished message for a 16-byte address
C9_Witness ==
    \E f \in Frames :
        /\ Built(f)
        /\ Len(f.addr) = IPV6_ADDR_LEN
        /\ FamilyOf(f.buffer) = AF_INET6

\* C10 as stated: reading the message of an Add back through the layout
\* PROTOCOL, SETNAME, DATA{IP{address}, optional TIMEOUT} gives the set name, the
\* address bytes and, when TIMEOUT is there, the timeout the caller passed.
C10_RoundTrip ==
    \A f \in Frames :
        Built(f) /\ f.operate = IPSET_ADD =>
            /\ ParsedName(f.buffer) = f.ipsetname
            /\ ParsedAddress(f.buffer) = f.addr
            /\ HasTimeoutAttr(f.buffer) =>
                  ToULong(ParsedTimeout(f.buffer), sizeofLong) = f.arg_timeout

\* add("blocklist", [192,168,1,1], 0) with timeouts disabled, message finished
BlocklistScenario(f) ==
    /\ Built(f)
    /\ f.operate = IPSET_ADD
    /\ f.ipsetname = Blocklist
    /\ f.addr = <<192, 168, 1, 1>>
    /\ ~IsPositive(f.arg_timeout)
    /\ ~dns_conf_ipset_timeout_enable

\* the kinds of the attributes at the offsets offs
KindsAt(buf, offs) == [i \in 1..Len(offs) |-> AttrKindAt(buf, offs[i])]

\* C11 as stated: the message of add("blocklist", [192,168,1,1], 0) with
\* timeouts disabled has no TIMEOUT and is 20 bytes of netlink header, 4 bytes
\* of protocol header, 8 bytes of PROTOCOL, 12 bytes of SETNAME, then DATA
\* holding IP holding an 8-byte address attribute.
C11_BlocklistLayoutAsStated ==
    \A f \in Frames :
        BlocklistScenario(f) =>
            /\ ~HasTimeoutAttr(f.buffer)
            /\ ProtocolOff(f.buffer) = 20 + 4
            /\ SetnameOff(f.buffer) - ProtocolOff(f.buffer) = 8
            /\ DataOff(f.buffer) - SetnameOff(f.buffer) = 12
            /\ AttrLenAt(f.buffer, AddressOff(f.buffer)) = 8

\* C11 amended: that message has no TIMEOUT and five attribute headers, the
\* four attributes PROTOCOL, SETNAME, DATA and IP of the wire format and the
\* address attribute inside IP; it is 16 bytes of netlink header, 4 bytes of
\* protocol header, 8 bytes of PROTOCOL (declared 5), 16 bytes of SETNAME
\* (declared 14: header, "blocklist", terminator; 2 bytes of padding), then
\* DATA of 16 bytes holding IP of 12 bytes holding the 8-byte IPv4 address
\* attribute, 60 bytes in all.
C11_BlocklistLayout ==
    \A f \in Frames :
        BlocklistScenario(f) =>
            /\ ~HasTimeoutAttr(f.buffer)
            /\ KindsAt(f.buffer, TopAttrs(f.buffer))
                 = <<IPSET_ATTR_PROTOCOL, IPSET_ATTR_SETNAME, IPSET_ATTR_DATA>>
            /\ KindsAt(f.buffer, Children(f.buffer, DataOff(f.buffer))) = <<IPSET_ATTR_IP>>
            /\ KindsAt(f.buffer, Children(f.buffer, IpOff(f.buffer)))
                 = <<IPSET_ATTR_IPADDR_IPV4>>
            /\ ProtocolOff(f.buffer) = 16 + 4
            /\ AttrLenAt(f.buffer, ProtocolOff(f.buffer)) = 5
            /\ SetnameOff(f.buffer) - ProtocolOff(f.buffer) = 8
            /\ AttrLenAt(f.buffer, SetnameOff(f.buffer)) = 14
            /\ DataOff(f.buffer) - SetnameOff(f.buffer) = 16
            /\ AttrLenAt(f.buffer, DataOff(f.buffer)) = 16
            /\ AttrLenAt(f.buffer, IpOff(f.buffer)) = 12
            /\ AttrLenAt(f.buffer, AddressOff(f.buffer)) = 8
            /\ NlmsgLen(f.buffer, littleEndian) = 60

\* the message of the scenario is finished and has been handed to sendto
C11_Witness ==
    \E f \in Frames : BlocklistScenario(f) /\ f.pc = "done" /\ f.ret = 60

(* the wire format of section 6, written down as bytes *)
\* bytes followed by the padding to a multiple of 4
Pad4(s) == s \o Zeros(NETLINK_ALIGN(Len(s)) - Len(s))

WireFlat(type, payload) ==
    Pad4(U16Bytes(SizeofNetlinkAttr + Len(payload), littleEndian)
         \o U16Bytes(type, littleEndian) \o payload)

WireNested(type, body) ==
    U16Bytes(SizeofNetlinkAttr + Len(body), littleEndian)
        \o U16Bytes(NLA_F_NESTED + type, littleEndian) \o body

\* the message for operation code op without TIMEOUT
WireImage(op, name, a) ==
    LET family == IF Len(a) = IPV4_ADDR_LEN THEN AF_INET ELSE AF_INET6
        kind == IF Len(a) = IPV4_ADDR_LEN THEN IPSET_ATTR_IPADDR_IPV4
                ELSE IPSET_ATTR_IPADDR_IPV6
        body == <<family, 0, 0, 0>>
                 \o WireFlat(IPSET_ATTR_PROTOCOL, <<IPSET_PROTOCOL>>)
                 \o WireFlat(IPSET_ATTR_SETNAME, name \o <<0>>)
                 \o WireNested(IPSET_ATTR_DATA,
                       WireNested(IPSET_ATTR_IP,
                           WireFlat(kind + NLA_F_NET_BYTEORDER, a)))
    IN  U32Bytes(SizeofNlmsghdr + Len(body), littleEndian)
          \o U16Bytes(op + 256 * NFNL_SUBSYS_IPSET, littleEndian)
          \o U16Bytes(NLM_F_REQUEST + NLM_F_REPLACE, littleEndian)
          \o Zeros(8) \o body

\* the whole scratch buffer as a sequence of bytes
BufferBytes(buf) == [i \in 1..BUFF_SZ |-> buf[i - 1]]

\* the positions of nlmsg_type in that sequence
TypeField == {5, 6}

\* C12: a finished message without TIMEOUT (every Delete; an Add with timeout 0
\* or with timeouts disabled) is, byte for byte, the wire image of its
\* operation code (ADD = 9, DEL = 10, or'ed with 6 << 8), set name and address,
\* with flags REQUEST|REPLACE; the images of ADD and of DEL for the same name
\* and address differ in the message type field only.
C12_AddDeleteDifferInOpOnly ==
    \A f \in Frames :
        Built(f) /\ ~TimeoutAsked(f) =>
            LET add == WireImage(9, f.ipsetname, f.addr)
                del == WireImage(10, f.ipsetname, f.addr)
                own == IF f.operate = IPSET_ADD THEN add ELSE del
            IN  /\ f.operate \in {IPSET_ADD, IPSET_DEL}
                /\ BufferBytes(f.buffer) = own \o Zeros(BUFF_SZ - Len(own))
                /\ NlmsgFlags(f.buffer, littleEndian) = 1 + 256
                /\ NlmsgType(f.buffer, littleEndian)
                     = (IF f.operate = IPSET_ADD THEN 9 ELSE 10) + 6 * 256
                /\ Len(add) = Len(del)
                /\ \A i \in 1..Len(add) : i \notin TypeField => add[i] = del[i]
                /\ \E i \in TypeField : add[i] # del[i]

\* a Delete with timeouts enabled, finished
C12_Witness ==
    \E f \in Frames :
        /\ Built(f)
        /\ f.operate = IPSET_DEL
        /\ dns_conf_ipset_timeout_enable
        /\ Len(f.addr) = IPV6_ADDR_LEN

\* an Add with timeout 30 and timeouts disabled, finished
C12_WitnessAdd ==
    \E f \in Frames :
        /\ Built(f)
        /\ f.operate = IPSET_ADD
        /\ IsPositive(f.arg_timeout)
        /\ ~dns_conf_ipset_timeout_enable

\* the size an attribute with n bytes of payload takes in the buffer
AlignedSize(n) == NETLINK_ALIGN(SizeofNetlinkAttr + n)

\* the positions of a call at which the buffer holds the headers
Building == {"attr_protocol", "attr_setname", "open_data", "open_ip", "attr_addr",
             "close_ip", "timeout", "close_data"}

\* what nlmsg_len is when the call is at pc: the headers and the aligned sizes
\* of what has been written
LengthAt(f, pc) ==
    LET hdr == SizeofNlmsghdr + SizeofNetlinkMsg
        proto == AlignedSize(1)
        name == AlignedSize(Len(f.ipsetname) + 1)
        open == SizeofNetlinkAttr
        address == AlignedSize(Len(f.addr))
        tmo == IF TimeoutAsked(f) THEN AlignedSize(sizeofLong) ELSE 0
    IN  CASE pc = "attr_protocol" -> hdr
          [] pc = "attr_setname" -> hdr + proto
          [] pc = "open_data" -> hdr + proto + name
          [] pc = "open_ip" -> hdr + proto + name + open
          [] pc = "attr_addr" -> hdr + proto + name + open + open
          [] pc \in {"close_ip", "timeout"} -> hdr + proto + name + open + open + address
          [] OTHER -> hdr + proto + name + open + open + address + tmo

\* every attribute header of a finished message, nested ones included
AllAttrs(buf) ==
    TopAttrs(buf) \o Children(buf, DataOff(buf)) \o Children(buf, IpOff(buf))

\* C13: at every step of building, after the headers and after each appended
\* or opened attribute, nlmsg_len is a multiple of 4 and is the sum of the
\* header sizes and the aligned sizes of the attributes written so far, the
\* aligned end of the last one; the recorded container offsets and, in the
\* finished message, every attribute header and payload start at a multiple of
\* 4, and the attributes end where the message ends.
C13_AlignedLength ==
    \A f \in Frames :
        /\ f.pc \in Building \/ Built(f) =>
              /\ NlmsgLen(f.buffer, littleEndian) % 4 = 0
              /\ NlmsgLen(f.buffer, littleEndian) = LengthAt(f, f.pc)
              /\ AttrOffset(f.buffer, littleEndian) = NlmsgLen(f.buffer, littleEndian)
              /\ f.nested[1] % 4 = 0 /\ f.nested[2] % 4 = 0
        /\ Built(f) =>
              LET all == AllAttrs(f.buffer)
                  top == TopAttrs(f.buffer)
              IN  /\ \A i \in 1..Len(all) :
                        all[i] % 4 = 0 /\ (all[i] + SizeofNetlinkAttr) % 4 = 0
                  /\ AttrEnd(f.buffer, top[Len(top)]) = NlmsgLen(f.buffer, littleEndian)
                  /\ \A i \in 1..(Len(top) - 1) : AttrEnd(f.buffer, top[i]) = top[i + 1]

\* a finished message whose set name and TIMEOUT both need padding or 8 bytes
C13_Witness ==
    \E f \in Frames :
        /\ Built(f)
        /\ f.ipsetname = Blocklist
        /\ Len(f.addr) = IPV4_ADDR_LEN
        /\ HasTimeoutAttr(f.buffer)

\* positions of a call at which the DATA container, the IP container, is open
DataOpen == {"open_ip", "attr_addr", "close_ip", "timeout", "close_data"}
IpOpen == {"attr_addr", "close_ip"}
IpClosed == {"timeout", "close_data"}

\* the len field of container k of a call's buffer
NestedLen(f, k) == AttrLenAt(f.buffer, f.nested[k])

\* the byte range a closed container declares: its offset and its end
NestedEnd(f, k) == f.nested[k] + NestedLen(f, k)

\* C14: nested framing is balanced and last-opened-first-closed. DATA is
\* opened, IP is opened right inside it, and while a container is open its
\* length field is still zero; IP's length is set while DATA is still open,
\* DATA's when the build ends, and neither is written again. The length
\* written is the buffer end at that moment minus the container's offset, at
\* least the 4 bytes of its header. In every built message the range of IP lies
\* inside the range of DATA, which ends at the total length, and both carry
\* the nested flag.
C14_NestedFraming ==
    \A f \in Frames :
        /\ f.pc \in DataOpen => NestedLen(f, 1) = 0
        /\ f.pc \in IpOpen => NestedLen(f, 2) = 0
        /\ f.pc \in (IpOpen \cup IpClosed) => f.nested[2] = f.nested[1] + SizeofNetlinkAttr
        /\ f.pc \in IpClosed \/ Built(f) =>
              /\ NestedLen(f, 2) = LengthAt(f, "close_ip") - f.nested[2]
              /\ NestedLen(f, 2) >= NETLINK_ALIGN(SizeofNetlinkAttr)
        /\ Built(f) =>
              /\ f.nested[1] = DataOff(f.buffer) /\ f.nested[2] = IpOff(f.buffer)
              /\ NestedLen(f, 1) = NlmsgLen(f.buffer, littleEndian) - f.nested[1]
              /\ NestedLen(f, 1) >= NETLINK_ALIGN(SizeofNetlinkAttr)
              /\ f.nested[1] < f.nested[2]
              /\ NestedEnd(f, 2) <= NestedEnd(f, 1)
              /\ NestedEnd(f, 1) = NlmsgLen(f.buffer, littleEndian)
              /\ AttrTypeAt(f.buffer, f.nested[1]) = NLA_F_NESTED + IPSET_ATTR_DATA
              /\ AttrTypeAt(f.buffer, f.nested[2]) = NLA_F_NESTED + IPSET_ATTR_IP
              /\ Len(Children(f.buffer, f.nested[2])) = 1

\* a built message in which DATA holds more than IP: a TIMEOUT follows IP
C14_Witness ==
    \E f \in Frames :
        /\ Built(f)
        /\ NestedEnd(f, 2) < NestedEnd(f, 1)
        /\ Len(Children(f.buffer, f.nested[1])) = 2

\* the attribute at offset start declares 4 + n and the buffer has advanced
\* to the aligned end of it
FlatJustWritten(f, start, n) ==
    /\ AttrLenAt(f.buffer, start) = SizeofNetlinkAttr + n
    /\ NlmsgLen(f.buffer, littleEndian) - start = NETLINK_ALIGN(SizeofNetlinkAttr + n)

\* the attribute at offset off of a finished message declares 4 + n, carries
\* n bytes, and the next attribute starts at the aligned end of it
FlatDeclares(buf, off, n) ==
    /\ AttrLenAt(buf, off) = SizeofNetlinkAttr + n
    /\ Len(AttrPayload(buf, off)) = n
    /\ AttrEnd(buf, off) = off + NETLINK_ALIGN(SizeofNetlinkAttr + n)

\* C15: every flat attribute the encoder writes (PROTOCOL, SETNAME, the
\* address, TIMEOUT) declares the 4 bytes of its header plus the bytes of its
\* payload as handed to the encoder, padding not counted, and the buffer
\* length advances by that sum aligned to 4: right after each one is written
\* and in the finished message. For a set name of n characters SETNAME
\* declares 4 + n + 1.
C15_DeclaredLength ==
    \A f \in Frames :
        /\ f.pc = "attr_setname" => FlatJustWritten(f, LengthAt(f, "attr_protocol"), 1)
        /\ f.pc = "open_data" =>
              FlatJustWritten(f, LengthAt(f, "attr_setname"), Len(f.ipsetname) + 1)
        /\ f.pc = "close_ip" => FlatJustWritten(f, LengthAt(f, "attr_addr"), Len(f.addr))
        /\ f.pc = "close_data" /\ TimeoutAsked(f) =>
              FlatJustWritten(f, LengthAt(f, "timeout"), sizeofLong)
        /\ Built(f) =>
              /\ FlatDeclares(f.buffer, ProtocolOff(f.buffer), 1)
              /\ FlatDeclares(f.buffer, SetnameOff(f.buffer), Len(f.ipsetname) + 1)
              /\ FlatDeclares(f.buffer, AddressOff(f.buffer), Len(f.addr))
              /\ HasTimeoutAttr(f.buffer) =>
                    FlatDeclares(f.buffer, TimeoutOff(f.buffer), sizeofLong)

\* a finished message whose SETNAME and PROTOCOL both needed padding
C15_Witness ==
    \E f \in Frames :
        /\ Built(f)
        /\ (Len(f.ipsetname) + 1) % 4 # 0
        /\ AttrLenAt(f.buffer, SetnameOff(f.buffer)) % 4 # 0
        /\ AttrEnd(f.buffer, SetnameOff(f.buffer)) = DataOff(f.buffer)
        /\ HasTimeoutAttr(f.buffer)

\* positions of a call before the message is finished
BeforeSend == {"idle", "check_addr", "socket_init", "socket_create", "socket_result",
               "check_name", "header"} \cup Building

\* the DATA container of the datagram d is closed: its length field, read in
\* d itself, spans from its header to the end of d
DataClosedIn(f, d) ==
    /\ f.nested[1] + SizeofNetlinkAttr <= Len(d)
    /\ GetU16([i \in 0..(Len(d) - 1) |-> d[i + 1]], f.nested[1], littleEndian)
          = Len(d) - f.nested[1]

\* every sendto of the call so far was handed the finished message
SentFinished(f) ==
    /\ Len(f.sent) = f.nsend
    /\ f.pc \in BeforeSend => f.nsend = 0
    /\ \A i \in 1..Len(f.sent) :
          /\ Len(f.sent[i]) = NlmsgLen(f.buffer, littleEndian)
          /\ Len(f.sent[i]) = LengthAt(f, "send")
          /\ f.sent[i] = Datagram(f.buffer, littleEndian)
          /\ DataClosedIn(f, f.sent[i])

\* no store into the buffer of a call that has sent
BufferKept ==
    \A t \in DOMAIN th :
        th[t].nsend > 0 /\ th'[t].nsend > 0 => th'[t].buffer = th[t].buffer

\* C16: a half-built message is never sent. Every sendto of a call, retries
\* included, comes after DATA has been closed, is handed the same bytes, the
\* finished message, with the length nlmsg_len of its header, and no store
\* into the buffer happens between or after the sends of the call.
C16_OnlyFinishedSent ==
    /\ [](\A f \in Frames : SentFinished(f))
    /\ [][BufferKept]_vars

\* a call that has sent the message twice, the first attempt having failed
C16_Witness ==
    \E f \in Frames :
        /\ f.pc = "done"
        /\ f.ret > 0
        /\ Len(f.sent) = 2
        /\ f.sent[1] = f.sent[2]
        /\ Len(f.sent[2]) = f.ret

\* a step stores into the shared state of the encoder
SharedChanged == Socket' # Socket \/ Globals' # Globals

\* the step is the socket() call of thread t, which had read no handle in
\* ipset_fd, and it touches no other thread's frame
CreationStepOf(t) ==
    /\ th[t].pc = "socket_create"
    /\ th'[t].pc = "socket_result"
    /\ th[t].seen_fd <= 0
    /\ \A u \in DOMAIN th \ {t} : th'[u] = th[u]

\* no thread starts creating while the handle is there and nobody is creating
NoCreationWithHandle ==
    (ipset_fd > 0 /\ \A t \in DOMAIN th : th[t].pc # "socket_create")
        => \A t \in DOMAIN th : th'[t].pc # "socket_create"

\* C17: socket creation is the only point at which the calls of two threads
\* touch shared state: a step changes ipset_fd or the open descriptors only
\* if it is the socket() call of a thread that had found no handle, the
\* configuration is never written, and once a handle is stored and no thread
\* is between its test and its socket() call, no thread creates again. (That
\* two first calls can both find no socket and both create one is the state
\* C17_Witness, which is reached.)
C17_OnlyCreationIsShared ==
    [][/\ SharedChanged => \E t \in DOMAIN th : CreationStepOf(t)
       /\ Globals' = Globals
       /\ NoCreationWithHandle]_vars

\* two first calls that both tested ipset_fd while no socket had been created
\* and both created one: two descriptors are open, the handle holds the later
\* one and the earlier one is referenced nowhere
C17_Witness ==
    \E t \in DOMAIN th, u \in DOMAIN th :
        /\ t # u
        /\ th[t].seen_open = {} /\ th[u].seen_open = {}
        /\ th[t].seen_fd = 0 /\ th[u].seen_fd = 0
        /\ Len(th[t].socket_ret) = 1 /\ Len(th[u].socket_ret) = 1
        /\ th[t].socket_ret[1] >= 0 /\ th[u].socket_ret[1] >= 0
        /\ th[t].socket_ret[1] # th[u].socket_ret[1]
        /\ openFds = {th[t].socket_ret[1], th[u].socket_ret[1]}
        /\ ipset_fd = th[u].socket_ret[1]
        /\ th[t].pc = "done" /\ th[u].pc = "done"

\* the call's socket() failed
CreationFailed(f) == f.socket_ret = <<-1>>

\* the name of the call does not fit: strlen(ipsetname) >= IPSET_MAXNAMELEN
LongName(f) == Len(f.ipsetname) >= IPSET_MAXNAMELEN

\* C18: of several failure conditions of one call the first in the order
\* address check, socket creation, name check is reported. A returned call
\* with an invalid address length has failed with EINVAL, whatever its name,
\* and has not touched the socket; one with a valid address whose socket
\* creation failed has failed with the error of socket(), not with
\* ENAMETOOLONG, whatever its name; one with a valid address, a socket and a
\* name that does not fit has failed with ENAMETOOLONG; and every call that
\* has returned a failure has sent nothing.
C18_ErrorPrecedence ==
    \A f \in Frames :
        f.pc = "done" =>
            /\ ~AddrOk(f) =>
                  /\ f.ret = -1 /\ f.errno = EINVAL
                  /\ f.socket_ret = << >>
            /\ AddrOk(f) /\ CreationFailed(f) =>
                  /\ f.ret = -1 /\ f.errno \in SocketErrnos
                  /\ f.errno # ENAMETOOLONG
            /\ AddrOk(f) /\ ~CreationFailed(f) /\ LongName(f) =>
                  f.ret = -1 /\ f.errno = ENAMETOOLONG
            /\ f.ret = -1 => f.nsend = 0 /\ f.sent = << >> /\ f.buffer = ZeroBuffer

\* a returned call with a valid address and a name that does not fit, whose
\* socket creation failed: the error is the one of socket()
C18_Witness ==
    \E f \in Frames :
        /\ f.pc = "done"
        /\ AddrOk(f) /\ LongName(f) /\ CreationFailed(f)
        /\ f.ret = -1 /\ f.errno = EACCES

\* a returned call with an invalid address length and a name that does not fit
C18_WitnessAddress ==
    \E f \in Frames :
        /\ f.pc = "done"
        /\ ~AddrOk(f) /\ LongName(f)
        /\ f.ret = -1 /\ f.errno = EINVAL

\* the largest message the encoder builds: a name of IPSET_MAXNAMELEN - 1
\* characters, an IPv6 address and a TIMEOUT of 8 bytes
LargestMessage ==
    SizeofNlmsghdr + SizeofNetlinkMsg + AlignedSize(1) + AlignedSize(IPSET_MAXNAMELEN)
        + 2 * SizeofNetlinkAttr + AlignedSize(IPV6_ADDR_LEN) + AlignedSize(8)

\* C19: whatever call passes the checks (address of 4 or 16 bytes, name of 0
\* to 31 characters, any timeout, timeouts enabled or not), no store made
\* while the message is built falls outside the 256 bytes of the buffer: at
\* every step the total length is at most that of the largest message, which
\* is below 256, and the next attribute would still start inside the buffer.
C19_WritesInsideBuffer ==
    \A f \in Frames :
        /\ ~f.oob
        /\ LargestMessage <= BUFF_SZ
        /\ f.pc \in Building \/ Built(f) =>
              /\ NlmsgLen(f.buffer, littleEndian) <= LargestMessage
              /\ AttrOffset(f.buffer, littleEndian) <= BUFF_SZ
              /\ Len(f.ipsetname) < IPSET_MAXNAMELEN
              /\ AddrOk(f)

\* a finished message of the largest size
C19_Witness ==
    \E f \in Frames :
        /\ Built(f)
        /\ Len(f.ipsetname) = IPSET_MAXNAMELEN - 1
        /\ Len(f.addr) = IPV6_ADDR_LEN
        /\ HasTimeoutAttr(f.buffer)
        /\ NlmsgLen(f.buffer, littleEndian) = LargestMessage
        /\ sizeofLong = 8


\* positions of a call before _ipset_socket_init has been entered and tested
BeforeSocketTest == {"idle", "check_addr", "socket_init"}

\* C20: a failed socket creation aborts the call with -1, nothing built and
\* nothing sent, and leaves -1 in the handle; the failure does not stick: a
\* call that finds -1 in the handle and has a valid address calls socket()
\* again, and if that succeeds the handle holds the new descriptor and the
\* call goes on to build and send, a returned one having sent its message.
C20_CreationFailureNotSticky ==
    \A f \in Frames :
        /\ f.pc = "done" /\ CreationFailed(f) =>
              /\ f.ret = -1
              /\ f.nsend = 0 /\ f.sent = << >>
              /\ f.buffer = ZeroBuffer
              /\ ipset_fd = -1
        /\ ipset_fd < 0 => ipset_fd = -1
        /\ f.entry_fd < 0 /\ AddrOk(f) /\ f.pc \notin BeforeSocketTest =>
              /\ f.seen_fd = f.entry_fd
              /\ f.pc = "socket_create" \/ Len(f.socket_ret) = 1
              /\ f.pc \notin {"socket_create", "socket_result", "done"} =>
                    f.socket_ret = <<ipset_fd>> /\ ipset_fd >= 0
              /\ f.pc = "done" /\ ~CreationFailed(f) /\ Len(f.ipsetname) < IPSET_MAXNAMELEN =>
                    /\ f.ret = NlmsgLen(f.buffer, littleEndian)
                    /\ f.ret > 0 /\ f.nsend > 0

\* a call that found the handle at -1 after a failed creation, created a
\* socket and sent its message
C20_Witness ==
    \E f \in Frames :
        /\ f.pc = "done"
        /\ f.entry_fd = -1
        /\ Len(f.socket_ret) = 1 /\ f.socket_ret[1] >= 0
        /\ ipset_fd = f.socket_ret[1]
        /\ f.ret > 0 /\ f.nsend > 0

====
